---- MODULE Spec2Model ----
(***************************************************************************)
(* Model of DataGloveVisualizer (src/main.py): the angle-line parser, the  *)
(* calibration map, the shared pose, the serial read loop and the          *)
(* connection handling.                                                    *)
(*                                                                         *)
(* Text is modelled as a sequence of tokens: the separators "," and "=",   *)
(* the blank " ", labels, numerals and junk words.  str.split and          *)
(* str.strip are computed on these sequences; float() is a table on        *)
(* single tokens.  Floats are exact rationals n/d in lowest terms, plus    *)
(* the three non-finite values float() also produces (inf, -inf, nan).     *)
(***************************************************************************)
EXTENDS Integers, Sequences, FiniteSets, TLC

(***************************************************************************)
(* Program constants.                                                      *)
(***************************************************************************)
NumChannels == 14
NumPressure == 5
MapRange == 90
MidPoint == 45
DefaultInterval == 17
DefaultFps == 60
AfterDelay == 16

(***************************************************************************)
(* Bounds of the model.                                                    *)
(***************************************************************************)
MaxQueue == 2
MaxReaders == 1
MaxRecords == 1

(***************************************************************************)
(* Floats.                                                                 *)
(***************************************************************************)
RECURSIVE Gcd(_, _)
Gcd(a, b) == IF b = 0 THEN a ELSE Gcd(b, a % b)

Abs(x) == IF x < 0 THEN -x ELSE x

Frac(n, d) ==
    LET s == IF d < 0 THEN -1 ELSE 1
        g == Gcd(Abs(n), Abs(d))
    IN  [k |-> "fin", n |-> (s * n) \div g, d |-> (s * d) \div g]

Fin(n) == [k |-> "fin", n |-> n, d |-> 1]
PosInf == [k |-> "inf", n |-> 1, d |-> 0]
NegInf == [k |-> "inf", n |-> -1, d |-> 0]
NaN == [k |-> "nan", n |-> 0, d |-> 0]

IsNaN(a) == a.k = "nan"
IsFinite(a) == a.k = "fin"

\* a == b on Python floats: nan equals nothing, itself included
FEq(a, b) == ~IsNaN(a) /\ ~IsNaN(b) /\ a = b

\* a < b on Python floats: every comparison with nan is False
FLt(a, b) ==
    /\ ~IsNaN(a)
    /\ ~IsNaN(b)
    /\ a # b
    /\ IF a.k = "inf" THEN a.n < 0
       ELSE IF b.k = "inf" THEN b.n > 0
       ELSE a.n * b.d < b.n * a.d

FLe(a, b) == FLt(a, b) \/ FEq(a, b)

\* a - b
FSub(a, b) ==
    IF IsNaN(a) \/ IsNaN(b) THEN NaN
    ELSE IF a.k = "inf" THEN (IF b.k = "inf" /\ b.n = a.n THEN NaN ELSE a)
    ELSE IF b.k = "inf" THEN (IF b.n > 0 THEN NegInf ELSE PosInf)
    ELSE Frac(a.n * b.d - b.n * a.d, a.d * b.d)

Sign(a) == IF a.n < 0 THEN -1 ELSE IF a.n > 0 THEN 1 ELSE 0

\* a / b, for b # 0 (map_angle divides only after max_val == min_val failed)
FDiv(a, b) ==
    IF IsNaN(a) \/ IsNaN(b) THEN NaN
    ELSE IF a.k = "inf"
         THEN (IF b.k = "inf" THEN NaN
               ELSE IF Sign(a) * Sign(b) > 0 THEN PosInf ELSE NegInf)
    ELSE IF b.k = "inf" THEN Fin(0)
    ELSE Frac(a.n * b.d, a.d * b.n)

\* a * c for an integer c > 0
FScale(a, c) == IF IsFinite(a) THEN Frac(a.n * c, a.d) ELSE a

\* the builtins min(a, b) and max(a, b): the first argument unless the second
\* compares smaller (larger)
PyMin(a, b) == IF FLt(b, a) THEN b ELSE a
PyMax(a, b) == IF FLt(a, b) THEN b ELSE a

(***************************************************************************)
(* Text.                                                                   *)
(***************************************************************************)
Labels == <<"C1", "C2", "C3", "C4", "C5", "C6", "C7",
            "C8", "C9", "C10", "C11", "C12", "C13", "C14">>

Numerals == <<"0.0", "10.0", "20.0", "30.0", "40.0", "50.0", "60.0", "70.0",
              "80.0", "90.0", "100.0", "110.0", "120.0", "130.0", "140.0",
              "150.0">>

IsNumeral(t) == \E i \in 1..Len(Numerals) : Numerals[i] = t

IsFloatToken(t) == IsNumeral(t) \/ t \in {"inf", "-inf", "nan"}

\* float(tok) for one token that float() accepts
TokenFloat(t) ==
    IF IsNumeral(t)
    THEN Fin(10 * ((CHOOSE i \in 1..Len(Numerals) : Numerals[i] = t) - 1))
    ELSE IF t = "inf" THEN PosInf
    ELSE IF t = "-inf" THEN NegInf
    ELSE NaN

RECURSIVE LStrip(_)
LStrip(s) == IF s # <<>> /\ Head(s) = " " THEN LStrip(Tail(s)) ELSE s

RECURSIVE RStrip(_)
RStrip(s) ==
    IF s # <<>> /\ s[Len(s)] = " " THEN RStrip(SubSeq(s, 1, Len(s) - 1)) ELSE s

\* str.strip()
Strip(s) == RStrip(LStrip(s))

\* str.split(sep): the pieces between the separators, empty pieces kept
RECURSIVE SplitFrom(_, _, _, _)
SplitFrom(s, sep, cur, acc) ==
    IF s = <<>> THEN Append(acc, cur)
    ELSE IF Head(s) = sep THEN SplitFrom(Tail(s), sep, <<>>, Append(acc, cur))
    ELSE SplitFrom(Tail(s), sep, Append(cur, Head(s)), acc)

Split(s, sep) == SplitFrom(s, sep, <<>>, <<>>)

\* float(text) raises ValueError unless text is one float token, blanks around
\* it allowed
FloatRaises(text) ==
    LET t == Strip(text) IN ~(Len(t) = 1 /\ IsFloatToken(t[1]))

FloatOf(text) == TokenFloat(Strip(text)[1])

(***************************************************************************)
(* The angle-line parser of parse_serial_data (lines 755-765): the value   *)
(* of a segment is float(part.split('=')[1]); a segment without "=" raises *)
(* IndexError, a piece float() refuses raises ValueError, and either makes *)
(* the call return None.                                                   *)
(***************************************************************************)
PartRaises(part) ==
    LET pieces == Split(part, "=")
    IN  Len(pieces) < 2 \/ FloatRaises(pieces[2])

PartValue(part) == FloatOf(Split(part, "=")[2])

LineParts(data) == Split(Strip(data), ",")

LineAccepted(data) ==
    LET parts == LineParts(data)
    IN  /\ Len(parts) = NumChannels
        /\ \A i \in 1..Len(parts) : ~PartRaises(parts[i])

LineAngles(data) ==
    LET parts == LineParts(data)
    IN  [i \in 1..Len(parts) |-> PartValue(parts[i])]

\* what lines 755-765 leave in `angles`, and whether they returned None first
ParseAngleLine(data) ==
    IF LineAccepted(data)
    THEN [ok |-> TRUE, angles |-> LineAngles(data)]
    ELSE [ok |-> FALSE, angles |-> <<>>]

(***************************************************************************)
(* The calibration transform and the pose (state-dependent operators are   *)
(* parameterised by the fields they read).                                 *)
(***************************************************************************)
Fingers == {"finger_0", "finger_1", "finger_2", "finger_3", "finger_4"}

\* __init__, lines 45-46
UnsetMin == [i \in 1..NumChannels |-> PosInf]
UnsetMax == [i \in 1..NumChannels |-> NegInf]

\* __init__, lines 64-70
InitAngleData ==
    [f \in Fingers |->
        CASE f = "finger_1" -> <<Fin(30), Fin(40), Fin(50)>>
          [] f = "finger_2" -> <<Fin(35), Fin(45), Fin(55)>>
          [] f = "finger_3" -> <<Fin(40), Fin(50), Fin(60)>>
          [] f = "finger_4" -> <<Fin(45), Fin(55), Fin(65)>>
          [] OTHER -> <<Fin(180), Fin(180)>>]

InitPressureData == [i \in 1..NumPressure |-> 0]

\* hasattr(self, 'current_raw_angles') is False until the first accepted line
NoRaw == <<>>

\* map_angle without the test of the maximum at line 737
MapWithoutMaxTest(cal, cmin, cmax, value, idx) ==
    IF ~cal THEN value
    ELSE LET min_val == cmin[idx + 1]
             max_val == cmax[idx + 1]
         IN  IF FEq(min_val, PosInf) THEN value
             ELSE IF FEq(max_val, min_val) THEN Fin(MidPoint)
             ELSE PyMax(Fin(0),
                        PyMin(Fin(MapRange),
                              FScale(FDiv(FSub(value, min_val),
                                          FSub(max_val, min_val)), MapRange)))

\* map_angle without the clamp of line 747
MapUnclamped(cal, cmin, cmax, value, idx) ==
    IF ~cal THEN value
    ELSE LET min_val == cmin[idx + 1]
             max_val == cmax[idx + 1]
         IN  IF FEq(min_val, PosInf) \/ FEq(max_val, NegInf) THEN value
             ELSE IF FEq(max_val, min_val) THEN Fin(MidPoint)
             ELSE FScale(FDiv(FSub(value, min_val), FSub(max_val, min_val)),
                         MapRange)

\* map_angle returning the value itself, not 45, at line 744
MapDegenerateUnmapped(cal, cmin, cmax, value, idx) ==
    IF ~cal THEN value
    ELSE LET min_val == cmin[idx + 1]
             max_val == cmax[idx + 1]
         IN  IF FEq(min_val, PosInf) \/ FEq(max_val, NegInf) THEN value
             ELSE IF FEq(max_val, min_val) THEN value
             ELSE PyMax(Fin(0),
                        PyMin(Fin(MapRange),
                              FScale(FDiv(FSub(value, min_val),
                                          FSub(max_val, min_val)), MapRange)))

\* map_angle(value, idx) under the calibration (cal, cmin, cmax), lines 728-749;
\* idx is the 0-based channel index of the source
MapWith(cal, cmin, cmax, value, idx) ==
    IF ~cal THEN value
    ELSE LET min_val == cmin[idx + 1]
             max_val == cmax[idx + 1]
         IN  IF FEq(min_val, PosInf) \/ FEq(max_val, NegInf) THEN value
             ELSE IF FEq(max_val, min_val) THEN Fin(MidPoint)
             ELSE PyMax(Fin(0),
                        PyMin(Fin(MapRange),
                              FScale(FDiv(FSub(value, min_val),
                                          FSub(max_val, min_val)), MapRange)))

\* the slices of lines 773-777 with the thumb taken from the front
FingerSlicesThumbFirst(mapped_angles) ==
    [f \in Fingers |->
        CASE f = "finger_0" -> SubSeq(mapped_angles, 1, 2)
          [] f = "finger_1" -> SubSeq(mapped_angles, 3, 5)
          [] f = "finger_2" -> SubSeq(mapped_angles, 6, 8)
          [] f = "finger_3" -> SubSeq(mapped_angles, 9, 11)
          [] OTHER -> SubSeq(mapped_angles, 12, 14)]

\* the five slices of lines 773-777
\* line 777 taking mapped_angles[11:14]
FingerSlicesWideThumb(mapped_angles) ==
    [f \in Fingers |->
        CASE f = "finger_0" -> SubSeq(mapped_angles, 12, 14)
          [] f = "finger_1" -> SubSeq(mapped_angles, 1, 3)
          [] f = "finger_2" -> SubSeq(mapped_angles, 4, 6)
          [] f = "finger_3" -> SubSeq(mapped_angles, 7, 9)
          [] OTHER -> SubSeq(mapped_angles, 10, 12)]

FingerSlices(mapped_angles) ==
    [f \in Fingers |->
        CASE f = "finger_1" -> SubSeq(mapped_angles, 1, 3)
          [] f = "finger_2" -> SubSeq(mapped_angles, 4, 6)
          [] f = "finger_3" -> SubSeq(mapped_angles, 7, 9)
          [] f = "finger_4" -> SubSeq(mapped_angles, 10, 12)
          [] OTHER -> SubSeq(mapped_angles, 13, 14)]

(***************************************************************************)
(* The lines the angle device sends.                                       *)
(***************************************************************************)
Field(i, v) == <<Labels[i], "=", v>>

RECURSIVE Join(_)
Join(fields) ==
    IF Len(fields) = 0 THEN <<>>
    ELSE IF Len(fields) = 1 THEN fields[1]
    ELSE fields[1] \o <<",">> \o Join(Tail(fields))

FieldsOf(vals) == [i \in 1..Len(vals) |-> Field(i, vals[i])]

Line(vals) == Join(FieldsOf(vals))

\* C1=10.0,...,C14=140.0, and a second row whose channels lie below, above
\* and on the first one's, three of them not finite
RowScenario == SubSeq(Numerals, 2, 15)
RowMixed == <<"0.0", "150.0", "inf", "-inf", "nan", "60.0", "0.0",
              "150.0", "90.0", "0.0", "150.0", "inf", "0.0", "150.0">>

LineScenario == Line(RowScenario)
LineMixed == Line(RowMixed)
LinePadded == <<" ">> \o Line(RowMixed) \o <<" ">>
Line13 == Line(SubSeq(RowScenario, 1, 13))
Line15 == Line(RowScenario) \o <<",", "C15", "=", "150.0">>
LineJunkFirst == Line([RowScenario EXCEPT ![1] = "abc"])
LineJunkLast == Line([RowScenario EXCEPT ![14] = "abc"])
LineNoEq == Join([FieldsOf(RowScenario) EXCEPT ![7] = <<"C7">>])
LineEmptyValue == Join([FieldsOf(RowScenario) EXCEPT ![3] = <<"C3", "=">>])
LineGluedValue ==
    Join([FieldsOf(RowScenario) EXCEPT ![2] = <<"C2", "=", "20.0", "abc">>])
LineExtraEq ==
    Join([FieldsOf(RowScenario) EXCEPT ![1] = <<"C1", "=", "10.0", "=", "abc">>])
LineBlank == <<" ">>

\* the lines readline() can return, by number
AngleLines == <<LineScenario, LineMixed, LinePadded, Line13, Line15,
                LineJunkFirst, LineJunkLast, LineNoEq, LineEmptyValue,
                LineGluedValue, LineExtraEq, LineBlank, <<>> >>

LineIds == 1..Len(AngleLines)

\* data = readline().decode('utf-8').strip() (line 796) and its parse
Stripped == [n \in LineIds |-> Strip(AngleLines[n])]
Parsed == [n \in LineIds |-> ParseAngleLine(Stripped[n])]

\* "<label>=<float>": exactly one "=", a label before it and a float after it
IsField(part) ==
    LET pieces == Split(part, "=")
    IN  /\ Len(pieces) = 2
        /\ Len(pieces[1]) = 1
        /\ pieces[1][1] \notin {" ", ","}
        /\ ~FloatRaises(pieces[2])

\* exactly 14 comma-separated segments, each of the form <label>=<float>
WellFormed(data) ==
    LET parts == Split(data, ",")
    IN  /\ Len(parts) = NumChannels
        /\ \A i \in 1..Len(parts) : IsField(parts[i])

WellFormedIds == {n \in LineIds : WellFormed(Stripped[n])}

(***************************************************************************)
(* State.                                                                  *)
(***************************************************************************)
VARIABLES
    angle_serial,       \* None, or a serial.Serial that is open or closed
    pressure_serial,
    thread_running,
    serial_thread,      \* None, or the Thread of the read loop
    readers,            \* read loops (serial_read_thread) still executing
    calibration_min,
    calibration_max,
    is_calibrated,
    current_raw_angles, \* NoRaw while the attribute does not exist
    angle_data,
    pressure_data,
    data_queue,
    vis_scheduled,      \* a call of update_visualization is pending
    pressure_rx,        \* text the pressure device has sent, unread at the port
    t_pc,               \* where the read loop stands inside parse_serial_data
    mapped_angles,      \* its local of line 770
    r_pc,               \* where the refresh stands inside create_hand_model
    r_seen,             \* the joint angles the refresh has read, by finger
    update_interval,    \* milliseconds, line 52
    update_locked,      \* FALSE also while the attribute does not exist (line 685)
    fps_var,            \* the preset shown in the refresh-rate box
    triggered,          \* history: the snapshots taken since the last reset
    last                \* history: the last operation, its input and result

vars == <<angle_serial, pressure_serial, thread_running, serial_thread, readers,
          calibration_min, calibration_max, is_calibrated, current_raw_angles,
          angle_data, pressure_data, data_queue, vis_scheduled, pressure_rx,
          t_pc, mapped_angles, r_pc, r_seen, update_interval, update_locked,
          fps_var, triggered, last>>

connVars == <<angle_serial, pressure_serial, thread_running, serial_thread, readers>>
calVars == <<calibration_min, calibration_max, is_calibrated, triggered>>
poseVars == <<current_raw_angles, angle_data>>
stepVars == <<t_pc, mapped_angles, r_pc, r_seen>>
rateVars == <<update_interval, update_locked, fps_var>>

NothingSeen == [f \in Fingers |-> <<>>]

Did(op, line, ret) == [op |-> op, line |-> line, ret |-> ret]

map_angle(value, idx) ==
    MapWith(is_calibrated, calibration_min, calibration_max, value, idx)

\* __init__ (lines 34-70) and run()'s first call of update_visualization (line
\* 830), which finds the queue empty and thread_running False and so does not
\* schedule itself again
Init ==
    /\ angle_serial = "None"
    /\ pressure_serial = "None"
    /\ thread_running = FALSE
    /\ serial_thread = "None"
    /\ readers = 0
    /\ calibration_min = UnsetMin
    /\ calibration_max = UnsetMax
    /\ is_calibrated = FALSE
    /\ current_raw_angles = NoRaw
    /\ angle_data = InitAngleData
    /\ pressure_data = InitPressureData
    /\ data_queue = <<>>
    /\ vis_scheduled = FALSE
    /\ pressure_rx = <<>>
    /\ t_pc = "loop"
    /\ mapped_angles = <<>>
    /\ r_pc = "idle"
    /\ r_seen = NothingSeen
    /\ update_interval = DefaultInterval
    /\ update_locked = FALSE
    /\ fps_var = DefaultFps
    /\ triggered = {}
    /\ last = Did("init", 0, "None")

(***************************************************************************)
(* Calibration handlers.                                                   *)
(***************************************************************************)
AngleOpen == angle_serial = "open"
PressureOpen == pressure_serial = "open"

\* set_min_values with line 716 of set_max_values added to it
SetMinActivates ==
    /\ IF ~AngleOpen
       THEN /\ UNCHANGED calVars
            /\ last' = Did("set_min", 0, "warning")
       ELSE /\ calibration_min' =
                   IF current_raw_angles # NoRaw THEN current_raw_angles ELSE UnsetMin
            /\ is_calibrated' = TRUE
            /\ triggered' = triggered \cup {"min"}
            /\ UNCHANGED calibration_max
            /\ last' = Did("set_min", 0, "set")
    /\ UNCHANGED <<connVars, poseVars, pressure_data, data_queue, vis_scheduled,
                   pressure_rx>>
    /\ UNCHANGED <<stepVars, rateVars>>

\* set_min_values, lines 701-708
set_min_values ==
    /\ IF ~AngleOpen
       THEN /\ UNCHANGED calVars
            /\ last' = Did("set_min", 0, "warning")
       ELSE /\ calibration_min' =
                   IF current_raw_angles # NoRaw THEN current_raw_angles ELSE UnsetMin
            /\ triggered' = triggered \cup {"min"}
            /\ UNCHANGED <<calibration_max, is_calibrated>>
            /\ last' = Did("set_min", 0, "set")
    /\ UNCHANGED <<connVars, poseVars, pressure_data, data_queue, vis_scheduled,
                   pressure_rx>>
    /\ UNCHANGED <<stepVars, rateVars>>

\* set_max_values, lines 710-718
set_max_values ==
    /\ IF ~AngleOpen
       THEN /\ UNCHANGED calVars
            /\ last' = Did("set_max", 0, "warning")
       ELSE /\ calibration_max' =
                   IF current_raw_angles # NoRaw THEN current_raw_angles ELSE UnsetMax
            /\ is_calibrated' = TRUE
            /\ triggered' = triggered \cup {"max"}
            /\ UNCHANGED calibration_min
            /\ last' = Did("set_max", 0, "set")
    /\ UNCHANGED <<connVars, poseVars, pressure_data, data_queue, vis_scheduled,
                   pressure_rx>>
    /\ UNCHANGED <<stepVars, rateVars>>

\* reset_calibration without line 724
ResetKeepsActive ==
    /\ calibration_min' = UnsetMin
    /\ calibration_max' = UnsetMax
    /\ UNCHANGED is_calibrated
    /\ triggered' = {}
    /\ last' = Did("reset", 0, "None")
    /\ UNCHANGED <<connVars, poseVars, pressure_data, data_queue, vis_scheduled,
                   pressure_rx>>
    /\ UNCHANGED <<stepVars, rateVars>>

\* reset_calibration, lines 720-726
reset_calibration ==
    /\ calibration_min' = UnsetMin
    /\ calibration_max' = UnsetMax
    /\ is_calibrated' = FALSE
    /\ triggered' = {}
    /\ last' = Did("reset", 0, "None")
    /\ UNCHANGED <<connVars, poseVars, pressure_data, data_queue, vis_scheduled,
                   pressure_rx>>
    /\ UNCHANGED <<stepVars, rateVars>>

(***************************************************************************)
(* parse_serial_data(data), lines 751-786: the state it leaves and the     *)
(* value it returns.                                                       *)
(***************************************************************************)
MappedAngles(angles) ==
    [i \in 1..Len(angles) |-> map_angle(angles[i], i - 1)]

\* lines 767-777 with the result p of lines 755-765
parse_serial_data(p) ==
    IF p.ok
    THEN /\ current_raw_angles' = p.angles
         /\ angle_data' = FingerSlices(MappedAngles(p.angles))
    ELSE UNCHANGED poseVars

\* line 783, or the None of lines 757 and 765
parse_returns(p) == IF p.ok THEN "True" ELSE "None"

(***************************************************************************)
(* The read loop in effect: the second definition of serial_read_thread    *)
(* (lines 788-803), which replaces the first (lines 369-426) when the      *)
(* class body is executed.  One action is one pass of the while body.      *)
(***************************************************************************)
AngleFlag == [kind |-> "angle", values |-> <<>>]
PressureItem(values) == [kind |-> "pressure", values |-> values]

LoopRuns == readers > 0 /\ thread_running /\ t_pc = "loop"

\* line 791 is false, or in_waiting is 0 at line 793: nothing is read
LoopIdle ==
    /\ LoopRuns
    /\ last' = Did("poll", 0, "idle")
    /\ UNCHANGED <<connVars, calVars, poseVars, pressure_data, data_queue,
                   vis_scheduled, pressure_rx>>
    /\ UNCHANGED <<stepVars, rateVars>>

\* in_waiting or readline raises (the port is gone), or decode raises; lines
\* 801-803 catch it and go round again
ReadErrors == {"SerialException", "UnicodeDecodeError"}

\* the handler of lines 801-803 leaving the loop, as line 424 does in the
\* definition that was replaced
LoopErrorBreaks(e) ==
    /\ LoopRuns
    /\ AngleOpen
    /\ readers' = readers - 1
    /\ last' = Did("poll", 0, e)
    /\ UNCHANGED <<angle_serial, pressure_serial, thread_running, serial_thread,
                   calVars, poseVars, pressure_data, data_queue, vis_scheduled,
                   pressure_rx>>
    /\ UNCHANGED <<stepVars, rateVars>>

LoopError(e) ==
    /\ LoopRuns
    /\ AngleOpen
    /\ last' = Did("poll", 0, e)
    /\ UNCHANGED <<connVars, calVars, poseVars, pressure_data, data_queue,
                   vis_scheduled, pressure_rx>>
    /\ UNCHANGED <<stepVars, rateVars>>

\* lines 796-800: line n is read, stripped, parsed and announced
LoopLine(n) ==
    /\ LoopRuns
    /\ AngleOpen
    /\ IF Stripped[n] = <<>>
       THEN /\ UNCHANGED <<poseVars, data_queue>>
            /\ last' = Did("poll", n, "empty")
       ELSE /\ Parsed[n].ok => Len(data_queue) < MaxQueue
            /\ parse_serial_data(Parsed[n])
            /\ data_queue' = IF parse_returns(Parsed[n]) = "True"
                             THEN Append(data_queue, AngleFlag)
                             ELSE data_queue
            /\ last' = Did("parse", n, parse_returns(Parsed[n]))
    /\ UNCHANGED <<connVars, calVars, pressure_data, vis_scheduled, pressure_rx>>
    /\ UNCHANGED <<stepVars, rateVars>>

\* line 790 finds thread_running False: the loop and its thread end
LoopExit ==
    /\ readers > 0
    /\ t_pc = "loop"
    /\ ~thread_running
    /\ readers' = readers - 1
    /\ last' = Did("loop_exit", 0, "None")
    /\ UNCHANGED <<angle_serial, pressure_serial, thread_running, serial_thread,
                   calVars, poseVars, pressure_data, data_queue, vis_scheduled,
                   pressure_rx>>
    /\ UNCHANGED <<stepVars, rateVars>>

(***************************************************************************)
(* The pressure device: one record "ch0:10ch1:20ch2:30ch3:40ch4:50\n" in   *)
(* two chunks, sent while the port is open.                                *)
(***************************************************************************)
PressureChunks == << <<"ch0", ":", "10", "ch1", ":", "20", "ch2">>,
                     <<":", "30", "ch3", ":", "40", "ch4", ":", "50", "\n">> >>

RecordLen == Len(PressureChunks[1]) + Len(PressureChunks[2])

PressureDeviceSend ==
    /\ PressureOpen
    /\ Len(pressure_rx) < MaxRecords * RecordLen
    /\ pressure_rx' = pressure_rx \o
           (IF Len(pressure_rx) % RecordLen = 0
            THEN PressureChunks[1] ELSE PressureChunks[2])
    /\ last' = Did("pressure_sent", 0, "None")
    /\ UNCHANGED <<connVars, calVars, poseVars, pressure_data, data_queue,
                   vis_scheduled>>
    /\ UNCHANGED <<stepVars, rateVars>>

(***************************************************************************)
(* Connection handling.                                                    *)
(***************************************************************************)
Closed(port) == IF port = "open" THEN "closed" ELSE port

\* stop_serial_thread, lines 429-433: join(timeout=1.0) returns when the loop
\* has ended or when the second is over, and the result is not looked at
stop_serial_thread(joined) ==
    /\ thread_running' = FALSE
    /\ readers' = IF serial_thread # "None" /\ readers > 0 /\ joined
                  THEN readers - 1 ELSE readers

\* toggle_connection, lines 437-447
Disconnect(joined) ==
    /\ AngleOpen \/ PressureOpen
    /\ stop_serial_thread(joined)
    /\ angle_serial' = Closed(angle_serial)
    /\ pressure_serial' = Closed(pressure_serial)
    /\ last' = Did("disconnect", 0, IF joined THEN "joined" ELSE "timeout")
    /\ UNCHANGED <<serial_thread, calVars, poseVars, pressure_data, data_queue,
                   vis_scheduled, pressure_rx>>
    /\ UNCHANGED <<stepVars, rateVars>>

\* start_serial_thread is called at line 466 and defined nowhere in main.py.
\* It is modelled as the counterpart of stop_serial_thread: it sets the flag,
\* keeps the thread in serial_thread (the one stop_serial_thread joins), starts
\* the read loop and starts the refresh cycle, which line 825 keeps going only
\* while thread_running is True
start_serial_thread ==
    /\ readers < MaxReaders
    /\ thread_running' = TRUE
    /\ serial_thread' = "Thread"
    /\ readers' = readers + 1
    /\ vis_scheduled' = TRUE

\* the steps of lines 449-466 that can raise; "none": none does
ConnectSteps == {"angle", "pressure", "start", "none"}

\* toggle_connection without lines 470-471
ConnectLeavesFirstOpen(angle_port, pressure_port, failed_at) ==
    /\ ~(AngleOpen \/ PressureOpen)
    /\ angle_port \/ pressure_port
    /\ failed_at = "angle" => angle_port
    /\ failed_at = "pressure" => pressure_port
    /\ IF failed_at = "none"
       THEN /\ start_serial_thread
            /\ angle_serial' = IF angle_port THEN "open" ELSE angle_serial
            /\ pressure_serial' = IF pressure_port THEN "open" ELSE pressure_serial
            /\ pressure_rx' = IF pressure_port THEN <<>> ELSE pressure_rx
            /\ last' = Did("connect", 0, "connected")
       ELSE /\ angle_serial' = IF angle_port /\ failed_at # "angle"
                               THEN "open" ELSE angle_serial
            /\ pressure_serial' = IF pressure_port /\ failed_at = "start"
                                  THEN "closed" ELSE pressure_serial
            /\ last' = Did("connect", 0, failed_at)
            /\ UNCHANGED <<thread_running, serial_thread, readers, vis_scheduled,
                           pressure_rx>>
    /\ UNCHANGED <<calVars, poseVars, pressure_data, data_queue>>
    /\ UNCHANGED <<stepVars, rateVars>>

\* toggle_connection, lines 448-474; failed_at is the step that raises
Connect(angle_port, pressure_port, failed_at) ==
    /\ ~(AngleOpen \/ PressureOpen)
    /\ angle_port \/ pressure_port
    /\ failed_at = "angle" => angle_port
    /\ failed_at = "pressure" => pressure_port
    /\ IF failed_at = "none"
       THEN /\ start_serial_thread
            /\ angle_serial' = IF angle_port THEN "open" ELSE angle_serial
            /\ pressure_serial' = IF pressure_port THEN "open" ELSE pressure_serial
            /\ pressure_rx' = IF pressure_port THEN <<>> ELSE pressure_rx
            /\ last' = Did("connect", 0, "connected")
       ELSE /\ angle_serial' = IF angle_port /\ failed_at # "angle"
                               THEN "closed" ELSE angle_serial
            /\ pressure_serial' = IF pressure_port /\ failed_at = "start"
                                  THEN "closed" ELSE pressure_serial
            /\ last' = Did("connect", 0, failed_at)
            /\ UNCHANGED <<thread_running, serial_thread, readers, vis_scheduled,
                           pressure_rx>>
    /\ UNCHANGED <<calVars, poseVars, pressure_data, data_queue>>
    /\ UNCHANGED <<stepVars, rateVars>>

\* lines 453-455: no port selected
ConnectNothing ==
    /\ ~(AngleOpen \/ PressureOpen)
    /\ last' = Did("connect", 0, "warning")
    /\ UNCHANGED <<connVars, calVars, poseVars, pressure_data, data_queue,
                   vis_scheduled, pressure_rx>>
    /\ UNCHANGED <<stepVars, rateVars>>

(***************************************************************************)
(* update_visualization, lines 805-826.                                    *)
(***************************************************************************)
\* lines 811-812 keeping the first pressure frame of the queue
RECURSIVE DrainedOldest(_, _)
DrainedOldest(q, pressures) ==
    IF q = <<>> THEN pressures
    ELSE IF Head(q).kind = "pressure" /\ Len(Head(q).values) = NumPressure
         THEN Head(q).values
         ELSE DrainedOldest(Tail(q), pressures)

\* the pressure frames a tick finds in the queue (history only)
RECURSIVE PressureCount(_)
PressureCount(q) ==
    IF q = <<>> THEN 0
    ELSE (IF Head(q).kind = "pressure" THEN 1 ELSE 0) + PressureCount(Tail(q))

RECURSIVE Drained(_, _)
Drained(q, pressures) ==
    IF q = <<>> THEN pressures
    ELSE Drained(Tail(q),
                 IF Head(q).kind = "pressure" /\ Len(Head(q).values) = NumPressure
                 THEN Head(q).values ELSE pressures)

update_visualization ==
    /\ vis_scheduled
    /\ pressure_data' = Drained(data_queue, pressure_data)
    /\ data_queue' = <<>>
    /\ vis_scheduled' = thread_running
    /\ last' = Did("tick", PressureCount(data_queue), "None")
    /\ UNCHANGED <<connVars, calVars, poseVars, pressure_rx>>
    /\ UNCHANGED <<stepVars, rateVars>>

(***************************************************************************)
(* The program.                                                            *)
(***************************************************************************)
\* the calibration, the angle stream and the connection
Next ==
    \/ set_min_values
    \/ set_max_values
    \/ reset_calibration
    \/ \E n \in LineIds : LoopLine(n)
    \/ LoopExit
    \/ \E joined \in BOOLEAN : Disconnect(joined)
    \/ \E a \in BOOLEAN, p \in BOOLEAN, f \in ConnectSteps : Connect(a, p, f)
    \/ update_visualization

Spec == Init /\ [][Next]_vars

\* the two sources, their failures and the connection, on three of the lines
IOLineIds == {1, 4, 12}

NextIO ==
    \/ LoopIdle
    \/ \E e \in ReadErrors : LoopError(e)
    \/ \E n \in IOLineIds : LoopLine(n)
    \/ LoopExit
    \/ PressureDeviceSend
    \/ \E joined \in BOOLEAN : Disconnect(joined)
    \/ \E a \in BOOLEAN, p \in BOOLEAN, f \in ConnectSteps : Connect(a, p, f)
    \/ ConnectNothing
    \/ update_visualization

SpecIO == Init /\ [][NextIO]_vars

(***************************************************************************)
(* The refresh-rate box: update_frequency (lines 683-695) and              *)
(* release_update_lock (lines 697-699).                                    *)
(***************************************************************************)
\* the values of the box, line 676
Presets == {1, 5, 10, 30, 60}

\* int(1000 / fps), line 690: the quotient cut to an integer, fps > 0
IntervalFor(fps) == 1000 \div fps

\* a preset is picked from the box: the box stores it in fps_var and then calls
\* update_frequency, which does nothing while update_locked is True
update_frequency(fps) ==
    /\ fps_var' = fps
    /\ IF ~update_locked
       THEN /\ update_locked' = TRUE
            /\ update_interval' = IntervalFor(fps)
            /\ last' = Did("set_fps", fps, "set")
       ELSE /\ UNCHANGED <<update_locked, update_interval>>
            /\ last' = Did("set_fps", fps, "locked")
    /\ UNCHANGED <<connVars, calVars, poseVars, pressure_data, data_queue,
                   vis_scheduled, pressure_rx, stepVars>>

\* the timer of line 691 fires 100 ms after the selection that took the lock
release_update_lock ==
    /\ update_locked
    /\ update_locked' = FALSE
    /\ last' = Did("release_lock", 0, "None")
    /\ UNCHANGED <<update_interval, fps_var>>
    /\ UNCHANGED <<connVars, calVars, poseVars, pressure_data, data_queue,
                   vis_scheduled, pressure_rx, stepVars>>

RateLineIds == {1}

\* the refresh rate, the connection and the refresh cycle
NextRate ==
    \/ \E fps \in Presets : update_frequency(fps)
    \/ release_update_lock
    \/ \E n \in RateLineIds : LoopLine(n)
    \/ LoopExit
    \/ \E joined \in BOOLEAN : Disconnect(joined)
    \/ \E a \in BOOLEAN, p \in BOOLEAN, f \in ConnectSteps : Connect(a, p, f)
    \/ update_visualization

SpecRate == Init /\ [][NextRate]_vars

(***************************************************************************)
(* Pressure frames on the queue.  Line 414 is the only statement of        *)
(* main.py that puts one there, after the test of line 411; it stands in   *)
(* the definition of serial_read_thread that lines 788-803 replace.        *)
(***************************************************************************)
PressureFrames == {<<10, 20, 30, 40, 50>>, <<50, 40, 30, 20, 10>>}

PressureFramePut(values) ==
    /\ LoopRuns
    /\ PressureOpen
    /\ Len(values) = NumPressure
    /\ Len(data_queue) < MaxQueue
    /\ data_queue' = Append(data_queue, PressureItem(values))
    /\ last' = Did("put", 0, "pressure")
    /\ UNCHANGED <<connVars, calVars, poseVars, pressure_data, vis_scheduled,
                   pressure_rx, stepVars, rateVars>>

PoseLineIds == {1, 2, 4}

\* the pose: angle lines, pressure frames, calibration and refresh ticks
NextPose ==
    \/ \E a \in BOOLEAN, p \in BOOLEAN, f \in ConnectSteps : Connect(a, p, f)
    \/ \E n \in PoseLineIds : LoopLine(n)
    \/ \E values \in PressureFrames : PressureFramePut(values)
    \/ set_min_values
    \/ set_max_values
    \/ reset_calibration
    \/ update_visualization

SpecPose == Init /\ [][NextPose]_vars

(***************************************************************************)
(* The same read loop and refresh, statement by statement: the loop runs   *)
(* on its own thread, the refresh on the Tk thread, and nothing orders the *)
(* five assignments of lines 773-777 against the five reads of             *)
(* create_hand_model (lines 149 and 196).                                  *)
(***************************************************************************)
\* the order of lines 773-777, and of lines 147-149 followed by line 196
FingerOrder == <<"finger_1", "finger_2", "finger_3", "finger_4", "finger_0">>

NextFinger(f) ==
    LET k == CHOOSE i \in 1..Len(FingerOrder) : FingerOrder[i] = f
    IN  IF k = Len(FingerOrder) THEN "done" ELSE FingerOrder[k + 1]

\* lines 796-770: the line is read and parsed, its angles are mapped
ThreadReadLine(n) ==
    /\ LoopRuns
    /\ AngleOpen
    /\ Stripped[n] # <<>>
    /\ Parsed[n].ok => Len(data_queue) < MaxQueue
    /\ IF Parsed[n].ok
       THEN /\ current_raw_angles' = Parsed[n].angles
            /\ mapped_angles' = MappedAngles(Parsed[n].angles)
            /\ t_pc' = FingerOrder[1]
            /\ last' = Did("read", n, "None")
       ELSE /\ UNCHANGED <<current_raw_angles, mapped_angles, t_pc>>
            /\ last' = Did("parse", n, "None")
    /\ UNCHANGED <<connVars, calVars, rateVars, angle_data, pressure_data, data_queue,
                   vis_scheduled, pressure_rx, r_pc, r_seen>>

\* one of lines 773-777
ThreadAssign ==
    /\ t_pc \in Fingers
    /\ angle_data' = [angle_data EXCEPT ![t_pc] = FingerSlices(mapped_angles)[t_pc]]
    /\ t_pc' = NextFinger(t_pc)
    /\ last' = Did("assign", last.line, "None")
    /\ UNCHANGED <<connVars, calVars, rateVars, current_raw_angles, mapped_angles,
                   pressure_data, data_queue, vis_scheduled, pressure_rx,
                   r_pc, r_seen>>

\* lines 783 and 800
ThreadPut ==
    /\ t_pc = "done"
    /\ data_queue' = Append(data_queue, AngleFlag)
    /\ t_pc' = "loop"
    /\ last' = Did("parse", last.line, "True")
    /\ UNCHANGED <<connVars, calVars, rateVars, poseVars, mapped_angles, pressure_data,
                   vis_scheduled, pressure_rx, r_pc, r_seen>>

\* update_visualization, lines 809-817: the queue is drained and
\* create_hand_model is entered
RefreshBegin ==
    /\ vis_scheduled
    /\ r_pc = "idle"
    /\ pressure_data' = Drained(data_queue, pressure_data)
    /\ data_queue' = <<>>
    /\ vis_scheduled' = FALSE
    /\ r_pc' = FingerOrder[1]
    /\ r_seen' = NothingSeen
    /\ last' = Did("refresh", 0, "None")
    /\ UNCHANGED <<connVars, calVars, rateVars, poseVars, pressure_rx, t_pc, mapped_angles>>

\* create_hand_model, line 149 (fingers 1-4) and line 196 (the thumb)
RefreshRead ==
    /\ r_pc \in Fingers
    /\ r_seen' = [r_seen EXCEPT ![r_pc] = angle_data[r_pc]]
    /\ r_pc' = NextFinger(r_pc)
    /\ last' = Did("refresh", 0, r_pc)
    /\ UNCHANGED <<connVars, calVars, rateVars, poseVars, pressure_data, data_queue,
                   vis_scheduled, pressure_rx, t_pc, mapped_angles>>

\* update_visualization, lines 823-826
RefreshEnd ==
    /\ r_pc = "done"
    /\ r_pc' = "idle"
    /\ vis_scheduled' = thread_running
    /\ last' = Did("tick", 0, "None")
    /\ UNCHANGED <<connVars, calVars, rateVars, poseVars, pressure_data, data_queue,
                   pressure_rx, t_pc, mapped_angles, r_seen>>

StepLineIds == {1, 2, 4}

NextSteps ==
    \/ \E a \in BOOLEAN, p \in BOOLEAN, f \in ConnectSteps :
          r_pc = "idle" /\ Connect(a, p, f)
    \/ \E n \in StepLineIds : ThreadReadLine(n)
    \/ ThreadAssign
    \/ ThreadPut
    \/ RefreshBegin
    \/ RefreshRead
    \/ RefreshEnd

SpecSteps == Init /\ [][NextSteps]_vars

(***************************************************************************)
(* Properties.                                                             *)
(***************************************************************************)
Channels == 0..(NumChannels - 1)

\* the values map_angle is tried on
TestValues == {NegInf, Fin(-50), Fin(0), Fin(50), Fin(100), Fin(150), PosInf, NaN}

InRange(x) == FLe(Fin(0), x) /\ FLe(x, Fin(MapRange))

\* the pose that holds the 14 values a unchanged, finger by finger
PoseOf(a) ==
    [f \in Fingers |->
        CASE f = "finger_0" -> <<a[13], a[14]>>
          [] f = "finger_1" -> <<a[1], a[2], a[3]>>
          [] f = "finger_2" -> <<a[4], a[5], a[6]>>
          [] f = "finger_3" -> <<a[7], a[8], a[9]>>
          [] OTHER -> <<a[10], a[11], a[12]>>]

\* the values a well-formed line carries, read off its row
RowValues(row) == [i \in 1..Len(row) |-> TokenFloat(row[i])]

SentValues(n) == IF n = 1 THEN RowValues(RowScenario) ELSE RowValues(RowMixed)

\* C1: every angle line that is not exactly 14 segments of the form
\* <label>=<float> is rejected by parse_serial_data, which then leaves the
\* pose, the raw-angle snapshot and the calibration bounds as they were.
C1_RejectionAllOrNothing ==
    [][(last'.op = "parse" /\ last'.line \notin WellFormedIds)
          => (last'.ret = "None" /\ UNCHANGED <<poseVars, calVars>>)]_vars

\* the part of C1 the code keeps: a call that returns None changes nothing
RejectedLeavesState ==
    [][(last'.op = "parse" /\ last'.ret = "None")
          => UNCHANGED <<poseVars, calVars>>]_vars

\* C2: a well-formed line parsed while calibration is inactive is accepted and
\* leaves its 14 values, unchanged and in channel order, in the pose (index
\* finger = channels 0-2, middle 3-5, ring 6-8, pinky 9-11, thumb 12-13) and
\* in the raw-angle snapshot.
C2_InactivePoseIsParsedValues ==
    (last.op = "parse" /\ last.line \in WellFormedIds /\ ~is_calibrated)
        => /\ last.ret = "True"
           /\ current_raw_angles = SentValues(last.line)
           /\ angle_data = PoseOf(SentValues(last.line))

C2_Witness ==
    /\ last.op = "parse"
    /\ last.line = 1
    /\ ~is_calibrated
    /\ calibration_min # UnsetMin
    /\ angle_data["finger_1"] = <<Fin(10), Fin(20), Fin(30)>>
    /\ angle_data["finger_0"] = <<Fin(130), Fin(140)>>

\* C3: map_angle(v, i) is v whenever calibration is inactive or the minimum or
\* the maximum bound of channel i is the unset sentinel.
C3_PassThrough ==
    \A i \in Channels, v \in TestValues :
        (~is_calibrated \/ calibration_min[i + 1] = PosInf
                        \/ calibration_max[i + 1] = NegInf)
            => map_angle(v, i) = v

C3_Witness ==
    /\ is_calibrated
    /\ calibration_min = UnsetMin
    /\ \E i \in Channels :
          /\ IsFinite(calibration_max[i + 1])
          /\ map_angle(Fin(150), i) = Fin(150)

BoundsFinite(i) ==
    IsFinite(calibration_min[i + 1]) /\ IsFinite(calibration_max[i + 1])

\* the pairs <<v, map_angle(v, i)>> of the values tried on channel i
MapTable(i) == {<<v, map_angle(v, i)>> : v \in TestValues}

\* C4 as claimed: with calibration active and min # max on channel i,
\* map_angle(v, i) is non-decreasing in v and lies in [0, 90] (stated here for
\* two finite bounds, in either order).
C4_NonDecreasingAndBounded ==
    \A i \in Channels :
        (is_calibrated /\ BoundsFinite(i)
            /\ calibration_min[i + 1] # calibration_max[i + 1])
        => \A p \in MapTable(i), q \in MapTable(i) :
              /\ InRange(p[2])
              /\ FLe(p[1], q[1]) => FLe(p[2], q[2])

\* C4 amended: with two finite bounds, min # max, the result lies in [0, 90];
\* it is non-decreasing in v when min < max and non-increasing when min > max;
\* min = 0, max = 100 maps 50 to 45 and 150 to 90.
C4_MonotoneInBoundOrder ==
    \A i \in Channels :
        (is_calibrated /\ BoundsFinite(i)
            /\ calibration_min[i + 1] # calibration_max[i + 1])
        => /\ \A p \in MapTable(i), q \in MapTable(i) :
                 /\ InRange(p[2])
                 /\ FLe(p[1], q[1]) =>
                       IF FLt(calibration_min[i + 1], calibration_max[i + 1])
                       THEN FLe(p[2], q[2])
                       ELSE FLe(q[2], p[2])
           /\ (calibration_min[i + 1] = Fin(0) /\ calibration_max[i + 1] = Fin(100))
                 => /\ map_angle(Fin(50), i) = Fin(45)
                    /\ map_angle(Fin(150), i) = Fin(90)

C4_Witness ==
    /\ is_calibrated
    /\ \E i \in Channels :
          /\ BoundsFinite(i)
          /\ FLt(calibration_max[i + 1], calibration_min[i + 1])
          /\ map_angle(Fin(150), i) = Fin(0)
    /\ \E i \in Channels :
          /\ calibration_min[i + 1] = Fin(0)
          /\ calibration_max[i + 1] = Fin(100)
          /\ map_angle(Fin(50), i) = Fin(45)

\* both snapshots have been taken from an angle frame
BothSnapshotsTaken == calibration_min # UnsetMin /\ calibration_max # UnsetMax

\* C5 as claimed: with calibration active and the two stored bounds of channel
\* i equal, map_angle(v, i) is exactly 45 for every v.
C5_EqualBoundsGiveMidpoint ==
    \A i \in Channels :
        (is_calibrated /\ BothSnapshotsTaken
            /\ FEq(calibration_min[i + 1], calibration_max[i + 1]))
            => \A v \in TestValues : map_angle(v, i) = Fin(MidPoint)

\* C5 amended: with calibration active and the two bounds of channel i equal
\* and finite, map_angle(v, i) is exactly 45 for every v; two equal infinite
\* bounds are taken for the unset sentinel and v is returned unchanged.
C5_EqualFiniteBoundsGiveMidpoint ==
    \A i \in Channels :
        (is_calibrated /\ FEq(calibration_min[i + 1], calibration_max[i + 1]))
            => \A v \in TestValues :
                  map_angle(v, i) =
                      IF IsFinite(calibration_min[i + 1]) THEN Fin(MidPoint) ELSE v

C5_Witness ==
    /\ is_calibrated
    /\ last.op = "set_max"
    /\ calibration_min = calibration_max
    /\ \E i \in Channels : IsFinite(calibration_min[i + 1])
    /\ \E i \in Channels : calibration_min[i + 1] = PosInf

CalibrationUnset ==
    /\ calibration_min = UnsetMin
    /\ calibration_max = UnsetMax
    /\ ~is_calibrated

\* C6: reset_calibration leaves both bounds unset on all 14 channels and
\* calibration inactive; map_angle is then the identity, and every angle frame
\* applied while the calibration stays as reset left it is applied unmapped,
\* as in the never-calibrated initial state.
C6_ResetRestoresInitial ==
    /\ [](last.op = "reset" =>
            /\ CalibrationUnset
            /\ \A i \in Channels, v \in TestValues : map_angle(v, i) = v)
    /\ [][(CalibrationUnset /\ last'.op = "parse" /\ last'.ret = "True")
            => angle_data' = PoseOf(current_raw_angles')]_vars

C6_Witness ==
    /\ last.op = "reset"
    /\ current_raw_angles # NoRaw
    /\ angle_data # PoseOf(current_raw_angles)

(***************************************************************************)
(* Pressure records, as the wire format defines them: the newline-ended    *)
(* pieces of the stream that begin with "ch0:" and hold exactly five       *)
(* "ch<N>:<integer>" tokens.                                               *)
(***************************************************************************)
ChannelMarks == {"ch0", "ch1", "ch2", "ch3", "ch4"}
PressureNumerals == <<"10", "20", "30", "40", "50">>

IsPressureNumeral(t) == \E i \in 1..Len(PressureNumerals) : PressureNumerals[i] = t

PressureInt(t) == 10 * (CHOOSE i \in 1..Len(PressureNumerals) : PressureNumerals[i] = t)

\* the captures of re.findall(r'ch\d:(\d+)', line)
RECURSIVE Captures(_)
Captures(line) ==
    IF Len(line) < 3 THEN <<>>
    ELSE IF line[1] \in ChannelMarks /\ line[2] = ":" /\ IsPressureNumeral(line[3])
         THEN <<PressureInt(line[3])>> \o Captures(SubSeq(line, 4, Len(line)))
         ELSE Captures(Tail(line))

IsRecord(line) ==
    /\ Len(line) >= 2
    /\ line[1] = "ch0"
    /\ line[2] = ":"
    /\ Len(Captures(line)) = NumPressure

RECURSIVE FramesOf(_)
FramesOf(lines) ==
    IF lines = <<>> THEN <<>>
    ELSE (IF IsRecord(Head(lines)) THEN <<Captures(Head(lines))>> ELSE <<>>)
            \o FramesOf(Tail(lines))

\* the frames of the complete records of a stream
ExpectedFrames(stream) ==
    LET pieces == Split(stream, "\n")
    IN  FramesOf(SubSeq(pieces, 1, Len(pieces) - 1))

\* frame f has reached the pose, or waits in the queue for the next refresh
Delivered(f) ==
    \/ pressure_data = f
    \/ \E k \in 1..Len(data_queue) : data_queue[k] = PressureItem(f)

LatestRecordDelivered ==
    LET frames == ExpectedFrames(pressure_rx)
    IN  frames # <<>> => Delivered(frames[Len(frames)])

\* C7: every complete record of the pressure stream, however it was split
\* across reads, yields its frame: once the read loop has made a pass over the
\* open ports, the frame of the latest complete record has reached the pose or
\* waits in the notification queue.
C7_PressureRecordsYieldFrames ==
    (last.op \in {"poll", "parse"} /\ PressureOpen) => LatestRecordDelivered

\* C8: a refresh that has read the five fingers has read them from one frame:
\* what it saw is the initial pose or the pose of one of the lines sent.
FramePoses ==
    {InitAngleData} \cup {PoseOf(SentValues(n)) : n \in WellFormedIds}

C8_RefreshSeesOneFrame ==
    (r_pc = "done") => r_seen \in FramePoses

\* C9: a fatal I/O error on the angle source leaves the pressure source being
\* read: after a pass of the loop in which the angle port raised, the frame of
\* the latest complete pressure record has been produced.
C9_OtherSourceKeepsBeingRead ==
    (last.op = "poll" /\ last.ret = "SerialException" /\ PressureOpen)
        => LatestRecordDelivered

\* C10: on disconnect the ports are closed only after the read loop has
\* exited: when toggle_connection has closed them, no read loop is running.
C10_PortsClosedAfterLoopExit ==
    last.op = "disconnect" => readers = 0

(***************************************************************************)
(* Connection lifecycle, calibration triggers and the read loop's errors.  *)
(***************************************************************************)
FailedSteps == ConnectSteps \ {"none"}

C12_ActiveOnlyAfterBoth ==
    is_calibrated => triggered = {"min", "max"}

\* C12 amended: is_calibrated is True only after a maximum snapshot since the
\* last reset, with or without a minimum snapshot; map_angle changes a value
\* only after both snapshots have been taken since the last reset.
C12_ActiveAfterMaxMappedAfterBoth ==
    /\ is_calibrated => "max" \in triggered
    /\ (\E i \in Channels, v \in TestValues : map_angle(v, i) # v)
          => (is_calibrated /\ triggered = {"min", "max"})

C12_Witness ==
    /\ last = Did("set_max", 0, "set")
    /\ is_calibrated
    /\ triggered = {"max"}
    /\ calibration_max # UnsetMax
    /\ \A i \in Channels, v \in TestValues : map_angle(v, i) = v

\* C13: a connect request whose selected ports open without error leaves a
\* port open and a read loop running with thread_running True; a disconnect
\* request leaves both ports closed and the loop stopped.
C13_Lifecycle ==
    /\ (last.op = "connect" /\ last.ret \in {"start", "connected"})
          => (thread_running /\ readers > 0 /\ (AngleOpen \/ PressureOpen))
    /\ last.op = "disconnect"
          => (~AngleOpen /\ ~PressureOpen /\ ~thread_running /\ readers = 0)

\* the read loop was handed a line it rejects, or bytes it cannot decode
BadLineEvent(l) ==
    \/ l.op = "parse" /\ l.ret = "None"
    \/ l.op = "poll" /\ l.ret = "UnicodeDecodeError"

\* C14: a rejected or undecodable angle line leaves the read loop running on
\* the open port, and the well-formed line that arrives next is parsed,
\* applied to the pose and announced by exactly one notification.
C14_BadLineKeepsStream ==
    [][/\ BadLineEvent(last')
          => (readers' = readers /\ readers' > 0 /\ thread_running' /\ AngleOpen'
              /\ UNCHANGED <<poseVars, data_queue>>)
       /\ (BadLineEvent(last) /\ last'.op = "parse"
              /\ last'.line \in WellFormedIds)
          => /\ last'.ret = "True"
             /\ current_raw_angles' = SentValues(last'.line)
             /\ angle_data' = FingerSlices(MappedAngles(SentValues(last'.line)))
             /\ data_queue' = Append(data_queue, AngleFlag)]_vars

C14_Witness ==
    /\ BadLineEvent(last)
    /\ current_raw_angles # NoRaw
    /\ LoopRuns
    /\ AngleOpen
    /\ Len(data_queue) < MaxQueue

(***************************************************************************)
(* Refresh rate, queue and pose shape.                                     *)
(***************************************************************************)
\* C15: after a refresh-rate selection the stored interval is int(1000 / fps)
\* of the preset selected last, also when the selection before it was made
\* less than 100 ms earlier, and it is the delay of the pending refresh tick.
C15_IntervalFollowsPreset ==
    /\ last.op \in {"set_fps", "release_lock"}
          => update_interval = IntervalFor(fps_var)
    /\ vis_scheduled => AfterDelay = update_interval

\* the queued items that are pressure frames, in queue order
PressureItems(q) == SelectSeq(q, LAMBDA item : item.kind = "pressure")

C17_PoseShape ==
    /\ DOMAIN angle_data = Fingers
    /\ Len(angle_data["finger_0"]) = 2
    /\ \A f \in Fingers \ {"finger_0"} : Len(angle_data[f]) = 3
    /\ Len(pressure_data) = NumPressure

\* a tick applied a pressure frame to a pose that an accepted line had
\* replaced with calibration active
C17_Witness ==
    /\ last.op = "tick"
    /\ last.line >= 1
    /\ is_calibrated
    /\ triggered = {"min", "max"}
    /\ current_raw_angles # NoRaw
    /\ angle_data # PoseOf(current_raw_angles)
    /\ pressure_data # InitPressureData

====
